---- MODULE Spec2Model ----
(***************************************************************************)
(* Model of src/log/log_signer.cc: LogSigner and LogSigVerifier.           *)
(*                                                                         *)
(* Spec     - one call at a time; every action is one whole public method. *)
(* ConcSpec - several threads inside Sign / Verify at statement            *)
(*            granularity, each with its own EVP_MD_CTX.                   *)
(*                                                                         *)
(* The serializer (serializer.h) and ct.proto are not part of the source   *)
(* file; they are modelled from the interface the specification gives.     *)
(* OpenSSL is modelled as an ideal signature scheme: a raw signature is    *)
(* the triple <<key pair, nonce, digest of the data>>, the digest is       *)
(* collision free, and EVP_VerifyFinal answers 1 (valid), 0 (does not      *)
(* validate) or -1 (the signature bytes do not parse).                     *)
(***************************************************************************)
EXTENDS Integers, Sequences, FiniteSets, TLC

\* ---------------------------------------------------------------- bounds
MaxTimestamp == 1
MaxTreeSize == 1
MaxByte == 1
MaxNonce == 1
NumKeys == 2
\* scaled stand-ins for the serializer's limits
MaxCertificateLength == 1
HashLength == 1

\* ------------------------------------------------------------- ct.proto
X509_ENTRY == 0
PRECERT_ENTRY == 1
UNKNOWN_ENTRY_TYPE == 2
SHA1 == 2
SHA256 == 4
RSA == 1
ECDSA == 3
HashAlgorithm_IsValid(h) == h \in 0..6
SignatureAlgorithm_IsValid(s) == s \in 0..3

EVP_PKEY_EC == "EVP_PKEY_EC"

\* ------------------------------------------------------------- domains
Timestamps == 0..MaxTimestamp
TreeSizes == 0..MaxTreeSize
Bytes == 0..MaxByte
Nonces == 0..MaxNonce
KeyIds == 1..NumKeys

SeqsUpTo(S, n) == UNION {[1..k -> S] : k \in 0..n}

EntryTypes == {X509_ENTRY, PRECERT_ENTRY, UNKNOWN_ENTRY_TYPE}
Certificates == SeqsUpTo(Bytes, MaxCertificateLength + 1)
RootHashes == SeqsUpTo(Bytes, HashLength + 1)

\* -------------------------------------------------------------- serializer
\* Serializer::SerializeSCTSignatureInput(timestamp, type, certificate, out)
SCTInputResult(type, certificate) ==
  IF type \notin {X509_ENTRY, PRECERT_ENTRY} THEN "INVALID_ENTRY_TYPE"
  ELSE IF Len(certificate) = 0 THEN "EMPTY_CERTIFICATE"
  ELSE IF Len(certificate) > MaxCertificateLength THEN "CERTIFICATE_TOO_LONG"
  ELSE "OK"

SerializeSCTSignatureInput(timestamp, type, certificate) ==
  LET res == SCTInputResult(type, certificate) IN
  [res |-> res,
   out |-> IF res = "OK"
           THEN <<0, timestamp, type, Len(certificate)>> \o certificate
           ELSE <<>>]

\* Serializer::SerializeSTHForSigning(timestamp, tree_size, root_hash, out)
SerializeSTHForSigning(timestamp, tree_size, root_hash) ==
  LET res == IF Len(root_hash) # HashLength THEN "INVALID_HASH_LENGTH" ELSE "OK" IN
  [res |-> res,
   out |-> IF res = "OK" THEN <<1, timestamp, tree_size>> \o root_hash ELSE <<>>]

\* DigitallySigned {hash_algorithm, sig_algorithm, signature}
DigitallySigned(h, s, sig) ==
  [hash_algorithm |-> h, sig_algorithm |-> s, signature |-> sig]

EmptyDigitallySigned == DigitallySigned(0, 0, <<>>)

MaxSignatureLength == 3

\* Serializer::SerializeDigitallySigned(signature, out)
SerializeDigitallySigned(sig) ==
  IF Len(sig.signature) > MaxSignatureLength
    THEN [res |-> "SIGNATURE_TOO_LONG", out |-> <<>>]
    ELSE [res |-> "OK",
          out |-> <<sig.hash_algorithm, sig.sig_algorithm, Len(sig.signature)>>
                    \o sig.signature]

\* Deserializer::DeserializeDigitallySigned(in, out)
DeserializeDigitallySigned(in) ==
  LET fail(r) == [res |-> r, sig |-> EmptyDigitallySigned] IN
  IF Len(in) < 3 THEN fail("INPUT_TOO_SHORT")
  ELSE IF ~HashAlgorithm_IsValid(in[1]) THEN fail("INVALID_HASH_ALGORITHM")
  ELSE IF ~SignatureAlgorithm_IsValid(in[2]) THEN fail("INVALID_SIGNATURE_ALGORITHM")
  ELSE IF in[3] > MaxSignatureLength THEN fail("INPUT_TOO_LONG")
  ELSE IF Len(in) - 3 < in[3] THEN fail("INPUT_TOO_SHORT")
  ELSE IF Len(in) - 3 > in[3] THEN fail("INPUT_TOO_LONG")
  ELSE [res |-> "OK",
        sig |-> DigitallySigned(in[1], in[2], SubSeq(in, 4, Len(in)))]

\* ------------------------------------------------------------------ OpenSSL
DigestBase == MaxTimestamp + MaxTreeSize + MaxByte + MaxCertificateLength + 5

\* EVP_sha256 over the bytes fed by EVP_SignUpdate / EVP_VerifyUpdate
RECURSIVE Digest(_)
Digest(data) ==
  IF data = <<>> THEN 0
  ELSE Digest(SubSeq(data, 1, Len(data) - 1)) * DigestBase + data[Len(data)] + 1

\* EVP_SignFinal(ctx, sig, &sig_size, pkey): signature bytes of digest md
EVP_SignFinal(md, pkey, nonce) == <<pkey.id, nonce, md>>

\* EVP_VerifyFinal(ctx, sig, len, pkey): 1 valid, 0 not valid, -1 error
EVP_VerifyFinal(md, sig, pkey) ==
  IF Len(sig) # 3 THEN -1
  ELSE IF sig[1] = pkey.id /\ sig[3] = md THEN 1
  ELSE 0

\* ------------------------------------------------------------------ state
VARIABLES
  signer,    \* LogSigner: pkey_, hash_algo_, sig_algo_
  verifier,  \* LogSigVerifier: pkey_, hash_algo_, sig_algo_
  process,   \* "running", or "aborted" after a failed CHECK / LOG(FATAL)
  call,      \* the last public call: its operation, inputs and outputs
  thr,       \* ConcSpec: per thread, the frame of its Sign / Verify call
  ctx        \* ConcSpec: the EVP_MD_CTX objects

vars == <<signer, verifier, process, call, thr, ctx>>

\* LogSigner::LogSigner(EVP_PKEY *pkey)
LogSigner(pkey) ==
  IF pkey.type = EVP_PKEY_EC
    THEN [pkey |-> pkey, hash_algo |-> SHA256, sig_algo |-> ECDSA, fatal |-> FALSE]
    ELSE [pkey |-> pkey, hash_algo |-> 0, sig_algo |-> 0, fatal |-> TRUE]

\* LogSigVerifier::LogSigVerifier(EVP_PKEY *pkey)
LogSigVerifier(pkey) ==
  IF pkey.type = EVP_PKEY_EC
    THEN [pkey |-> pkey, hash_algo |-> SHA256, sig_algo |-> ECDSA, fatal |-> FALSE]
    ELSE [pkey |-> pkey, hash_algo |-> 0, sig_algo |-> 0, fatal |-> TRUE]

\* ------------------------------------------------------------ proof objects
\* ct::LogEntry
LogEntry(type, leaf_certificate) ==
  [type |-> type, leaf_certificate |-> leaf_certificate]

\* ct::SignedCertificateTimestamp; timestamp() is 0 while has_timestamp is false
SignedCertificateTimestamp(has_ts, ts, has_sig, sig) ==
  [has_timestamp |-> has_ts, timestamp |-> ts,
   has_signature |-> has_sig, signature |-> sig]

\* ct::SignedTreeHead
SignedTreeHead(has_ts, ts, tree_size, root_hash, has_sig, sig) ==
  [has_timestamp |-> has_ts, timestamp |-> ts,
   tree_size |-> tree_size, root_hash |-> root_hash,
   has_signature |-> has_sig, signature |-> sig]

NoProof == [has_timestamp |-> FALSE]

\* ---------------------------------------------------------- call outcomes
\* a call that returned `result`
Returned(result, steps, blob, proof, evp) ==
  [result |-> result, aborted |-> FALSE, steps |-> steps,
   blob |-> blob, proof |-> proof, evp |-> evp]

\* a call ended by a failed CHECK / LOG(FATAL): nothing is returned
Aborted(steps, proof) ==
  [result |-> "NONE", aborted |-> TRUE, steps |-> steps,
   blob |-> <<>>, proof |-> proof, evp |-> <<>>]

\* ----------------------------------------------------------------- LogSigner
\* fault: the EMPTY_CERTIFICATE and CERTIFICATE_TOO_LONG cases exchanged
Signer_GetSerializeError_Swapped(res) ==
  CASE res = "INVALID_ENTRY_TYPE" -> "INVALID_ENTRY_TYPE"
    [] res = "EMPTY_CERTIFICATE" -> "CERTIFICATE_TOO_LONG"
    [] res = "CERTIFICATE_TOO_LONG" -> "EMPTY_CERTIFICATE"
    [] res = "INVALID_HASH_LENGTH" -> "INVALID_HASH_LENGTH"
    [] OTHER -> "FATAL"

\* LogSigner::GetSerializeError
Signer_GetSerializeError(res) ==
  CASE res = "INVALID_ENTRY_TYPE" -> "INVALID_ENTRY_TYPE"
    [] res = "EMPTY_CERTIFICATE" -> "EMPTY_CERTIFICATE"
    [] res = "CERTIFICATE_TOO_LONG" -> "CERTIFICATE_TOO_LONG"
    [] res = "INVALID_HASH_LENGTH" -> "INVALID_HASH_LENGTH"
    [] OTHER -> "FATAL"

\* LogSigner::RawSign; evp_ok is whether EVP_SignFinal answers 1 (CHECK_EQ)
RawSign(data, nonce, evp_ok) ==
  [ok |-> evp_ok,
   ret |-> IF evp_ok THEN EVP_SignFinal(Digest(data), signer.pkey, nonce) ELSE <<>>]

\* fault: set_hash_algorithm is missing
Sign_Unstamped(data, result, nonce, evp_ok) ==
  LET stamped == [result EXCEPT !.sig_algorithm = signer.sig_algo]
      raw == RawSign(data, nonce, evp_ok)
  IN [aborted |-> ~raw.ok,
      result |-> IF raw.ok THEN [stamped EXCEPT !.signature = raw.ret] ELSE stamped]

\* LogSigner::Sign(data, result): result after the call, and whether RawSign aborted
Sign(data, result, nonce, evp_ok) ==
  LET stamped == [result EXCEPT !.hash_algorithm = signer.hash_algo,
                                !.sig_algorithm = signer.sig_algo]
      raw == RawSign(data, nonce, evp_ok)
  IN [aborted |-> ~raw.ok,
      result |-> IF raw.ok THEN [stamped EXCEPT !.signature = raw.ret] ELSE stamped]

\* the tail shared by the two scalar sign operations: Sign, then
\* CHECK_EQ(Serializer::OK, SerializeDigitallySigned(signature, result))
SignAndSerialize(serialized_input, nonce, evp_ok) ==
  LET s == Sign(serialized_input, EmptyDigitallySigned, nonce, evp_ok)
      enc == SerializeDigitallySigned(s.result)
  IN IF s.aborted THEN Aborted(<<"canonicalize", "raw_sign">>, NoProof)
     ELSE IF enc.res # "OK"
       THEN Aborted(<<"canonicalize", "raw_sign", "encode">>, NoProof)
     ELSE Returned("OK", <<"canonicalize", "raw_sign", "encode">>, enc.out, NoProof, <<>>)

\* a sign operation leaving through GetSerializeError
SignRejected(res, proof) ==
  IF Signer_GetSerializeError(res) = "FATAL"
    THEN Aborted(<<"canonicalize">>, proof)
    ELSE Returned(Signer_GetSerializeError(res), <<"canonicalize">>, <<>>, proof, <<>>)

\* LogSigner::SignCertificateTimestamp(timestamp, type, leaf_certificate, result)
SignCertificateTimestamp(timestamp, type, leaf_certificate, nonce, evp_ok) ==
  LET ser == SerializeSCTSignatureInput(timestamp, type, leaf_certificate) IN
  IF ser.res # "OK" THEN SignRejected(ser.res, NoProof)
  ELSE SignAndSerialize(ser.out, nonce, evp_ok)

\* the tail shared by the two in-place sign operations:
\* Sign(serialized_input, proof->mutable_signature()); return OK
SignInPlace(serialized_input, proof, nonce, evp_ok) ==
  LET s == Sign(serialized_input, proof.signature, nonce, evp_ok)
      after == [proof EXCEPT !.has_signature = TRUE, !.signature = s.result]
  IN IF s.aborted THEN Aborted(<<"canonicalize", "raw_sign">>, after)
     ELSE Returned("OK", <<"canonicalize", "raw_sign">>, <<>>, after, <<>>)

\* fault: the CHECK(sct->has_timestamp()) is missing
SignCertificateTimestampSCT_NoCheck(entry, sct, nonce, evp_ok) ==
  LET ser == SerializeSCTSignatureInput(sct.timestamp, entry.type,
                                        entry.leaf_certificate) IN
  IF ser.res # "OK" THEN SignRejected(ser.res, sct)
  ELSE SignInPlace(ser.out, sct, nonce, evp_ok)

\* LogSigner::SignCertificateTimestamp(entry, sct)
SignCertificateTimestampSCT(entry, sct, nonce, evp_ok) ==
  IF ~sct.has_timestamp THEN Aborted(<<>>, sct)
  ELSE
    LET ser == SerializeSCTSignatureInput(sct.timestamp, entry.type,
                                          entry.leaf_certificate) IN
    IF ser.res # "OK" THEN SignRejected(ser.res, sct)
    ELSE SignInPlace(ser.out, sct, nonce, evp_ok)

\* LogSigner::SignTreeHead(timestamp, tree_size, root_hash, result)
SignTreeHead(timestamp, tree_size, root_hash, nonce, evp_ok) ==
  LET ser == SerializeSTHForSigning(timestamp, tree_size, root_hash) IN
  IF ser.res # "OK" THEN SignRejected(ser.res, NoProof)
  ELSE SignAndSerialize(ser.out, nonce, evp_ok)

\* fault: the Signer assigns the proof's timestamp field itself
SignTreeHeadSTH_AssignsTimestamp(sth, nonce, evp_ok) ==
  LET assigned == [sth EXCEPT !.has_timestamp = TRUE]
      ser == SerializeSTHForSigning(assigned.timestamp, assigned.tree_size,
                                    assigned.root_hash)
  IN IF ser.res # "OK" THEN SignRejected(ser.res, assigned)
     ELSE SignInPlace(ser.out, assigned, nonce, evp_ok)

\* LogSigner::SignTreeHead(sth)
SignTreeHeadSTH(sth, nonce, evp_ok) ==
  LET ser == SerializeSTHForSigning(sth.timestamp, sth.tree_size, sth.root_hash) IN
  IF ser.res # "OK" THEN SignRejected(ser.res, sth)
  ELSE SignInPlace(ser.out, sth, nonce, evp_ok)

\* ------------------------------------------------------------ LogSigVerifier
\* LogSigVerifier::GetSerializeError
Verifier_GetSerializeError(res) ==
  CASE res = "INVALID_ENTRY_TYPE" -> "INVALID_ENTRY_TYPE"
    [] res = "EMPTY_CERTIFICATE" -> "EMPTY_CERTIFICATE"
    [] res = "CERTIFICATE_TOO_LONG" -> "CERTIFICATE_TOO_LONG"
    [] res = "INVALID_HASH_LENGTH" -> "INVALID_HASH_LENGTH"
    [] OTHER -> "FATAL"

\* LogSigVerifier::GetDeserializeSignatureError
GetDeserializeSignatureError(res) ==
  CASE res = "INPUT_TOO_SHORT" -> "SIGNATURE_TOO_SHORT"
    [] res = "INVALID_HASH_ALGORITHM" -> "INVALID_HASH_ALGORITHM"
    [] res = "INVALID_SIGNATURE_ALGORITHM" -> "INVALID_SIGNATURE_ALGORITHM"
    [] res = "INPUT_TOO_LONG" -> "SIGNATURE_TOO_LONG"
    [] OTHER -> "FATAL"

\* fault: the answer of EVP_VerifyFinal is tested as a boolean
RawVerify_NonZero(data, sig_string) ==
  LET rc == EVP_VerifyFinal(Digest(data), sig_string, verifier.pkey) IN
  [ret |-> (rc # 0), rc |-> rc]

\* LogSigVerifier::RawVerify: rc is what EVP_VerifyFinal answered
RawVerify(data, sig_string) ==
  LET rc == EVP_VerifyFinal(Digest(data), sig_string, verifier.pkey) IN
  [ret |-> (rc = 1), rc |-> rc]

\* fault: the call of RawVerify is missing
Verify_SkipsRawVerify(input, signature) ==
  IF signature.hash_algorithm # verifier.hash_algo
    THEN [result |-> "HASH_ALGORITHM_MISMATCH",
          steps |-> <<"check_hash">>, evp |-> <<>>]
  ELSE IF signature.sig_algorithm # verifier.sig_algo
    THEN [result |-> "SIGNATURE_ALGORITHM_MISMATCH",
          steps |-> <<"check_hash", "check_sig">>, evp |-> <<>>]
  ELSE [result |-> "OK", steps |-> <<"check_hash", "check_sig">>, evp |-> <<>>]

\* fault: the two mismatch codes exchanged
Verify_SwappedCodes(input, signature) ==
  IF signature.hash_algorithm # verifier.hash_algo
    THEN [result |-> "SIGNATURE_ALGORITHM_MISMATCH",
          steps |-> <<"check_hash">>, evp |-> <<>>]
  ELSE IF signature.sig_algorithm # verifier.sig_algo
    THEN [result |-> "HASH_ALGORITHM_MISMATCH",
          steps |-> <<"check_hash", "check_sig">>, evp |-> <<>>]
  ELSE
    LET rv == RawVerify(input, signature.signature) IN
    [result |-> IF ~rv.ret THEN "INVALID_SIGNATURE" ELSE "OK",
     steps |-> <<"check_hash", "check_sig", "raw_verify">>, evp |-> <<rv.rc>>]

\* fault: RawVerify is called before the algorithm checks
Verify_RawFirst(input, signature) ==
  LET rv == RawVerify(input, signature.signature) IN
  IF ~rv.ret
    THEN [result |-> "INVALID_SIGNATURE",
          steps |-> <<"raw_verify">>, evp |-> <<rv.rc>>]
  ELSE IF signature.hash_algorithm # verifier.hash_algo
    THEN [result |-> "HASH_ALGORITHM_MISMATCH",
          steps |-> <<"raw_verify", "check_hash">>, evp |-> <<rv.rc>>]
  ELSE IF signature.sig_algorithm # verifier.sig_algo
    THEN [result |-> "SIGNATURE_ALGORITHM_MISMATCH",
          steps |-> <<"raw_verify", "check_hash", "check_sig">>, evp |-> <<rv.rc>>]
  ELSE [result |-> "OK",
        steps |-> <<"raw_verify", "check_hash", "check_sig">>, evp |-> <<rv.rc>>]

\* LogSigVerifier::Verify(input, signature)
Verify(input, signature) ==
  IF signature.hash_algorithm # verifier.hash_algo
    THEN [result |-> "HASH_ALGORITHM_MISMATCH",
          steps |-> <<"check_hash">>, evp |-> <<>>]
  ELSE IF signature.sig_algorithm # verifier.sig_algo
    THEN [result |-> "SIGNATURE_ALGORITHM_MISMATCH",
          steps |-> <<"check_hash", "check_sig">>, evp |-> <<>>]
  ELSE
    LET rv == RawVerify(input, signature.signature) IN
    [result |-> IF ~rv.ret THEN "INVALID_SIGNATURE" ELSE "OK",
     steps |-> <<"check_hash", "check_sig", "raw_verify">>, evp |-> <<rv.rc>>]

\* a verify operation leaving through one of the two error mappings
VerifyRejected(code, steps, proof) ==
  IF code = "FATAL" THEN Aborted(steps, proof)
  ELSE Returned(code, steps, <<>>, proof, <<>>)

\* canonicalization done: return Verify(serialized, signature)
VerifyTail(before, serialized, signature, proof) ==
  LET v == Verify(serialized, signature) IN
  Returned(v.result, before \o v.steps, <<>>, proof, v.evp)

\* LogSigVerifier::VerifySCTSignature(timestamp, type, leaf_cert, serialized_sig)
VerifySCTSignature(timestamp, type, leaf_cert, serialized_sig) ==
  LET des == DeserializeDigitallySigned(serialized_sig)
      ser == SerializeSCTSignatureInput(timestamp, type, leaf_cert)
  IN IF des.res # "OK"
       THEN VerifyRejected(GetDeserializeSignatureError(des.res), <<"decode">>, NoProof)
     ELSE IF ser.res # "OK"
       THEN VerifyRejected(Verifier_GetSerializeError(ser.res),
                           <<"decode", "canonicalize">>, NoProof)
     ELSE VerifyTail(<<"decode", "canonicalize">>, ser.out, des.sig, NoProof)

\* LogSigVerifier::VerifySCTSignature(entry, sct)
VerifySCTSignatureSCT(entry, sct) ==
  LET ser == SerializeSCTSignatureInput(sct.timestamp, entry.type,
                                        entry.leaf_certificate) IN
  IF ser.res # "OK"
    THEN VerifyRejected(Verifier_GetSerializeError(ser.res), <<"canonicalize">>, sct)
  ELSE VerifyTail(<<"canonicalize">>, ser.out, sct.signature, sct)

\* LogSigVerifier::VerifySTHSignature(timestamp, tree_size, root_hash, serialized_sig)
VerifySTHSignature(timestamp, tree_size, root_hash, serialized_sig) ==
  LET des == DeserializeDigitallySigned(serialized_sig)
      ser == SerializeSTHForSigning(timestamp, tree_size, root_hash)
  IN IF des.res # "OK"
       THEN VerifyRejected(GetDeserializeSignatureError(des.res), <<"decode">>, NoProof)
     ELSE IF ser.res # "OK"
       THEN VerifyRejected(Verifier_GetSerializeError(ser.res),
                           <<"decode", "canonicalize">>, NoProof)
     ELSE VerifyTail(<<"decode", "canonicalize">>, ser.out, des.sig, NoProof)

\* LogSigVerifier::VerifySTHSignature(sth)
VerifySTHSignatureSTH(sth) ==
  LET ser == SerializeSTHForSigning(sth.timestamp, sth.tree_size, sth.root_hash) IN
  IF ser.res # "OK"
    THEN VerifyRejected(Verifier_GetSerializeError(ser.res), <<"canonicalize">>, sth)
  ELSE VerifyTail(<<"canonicalize">>, ser.out, sth.signature, sth)

\* ------------------------------------------------------- inputs of the calls
\* (has_timestamp, timestamp()) of a proof object
TimestampFields == {<<FALSE, 0>>} \cup {<<TRUE, t>> : t \in Timestamps}

LogEntries == {LogEntry(ty, c) : ty \in EntryTypes, c \in Certificates}

\* what sign_timestamp / sign_tree_head can return for the given fields
SCTSignatures(timestamp, type, leaf_certificate) ==
  IF SCTInputResult(type, leaf_certificate) # "OK" THEN {}
  ELSE {SignCertificateTimestamp(timestamp, type, leaf_certificate, n, TRUE).blob :
          n \in Nonces}

STHSignatures(timestamp, tree_size, root_hash) ==
  IF Len(root_hash) # HashLength THEN {}
  ELSE {SignTreeHead(timestamp, tree_size, root_hash, n, TRUE).blob : n \in Nonces}

\* a well-formed blob with one algorithm identifier replaced
Restamped(blobs) ==
  {[b EXCEPT ![1] = SHA1] : b \in blobs} \cup {[b EXCEPT ![2] = RSA] : b \in blobs}

\* blobs no signer produced: truncated, unknown identifiers, oversized,
\* empty or foreign signature bytes under matching and mismatched algorithms
ForgedBlobs ==
  {<<>>, <<SHA256, ECDSA>>, <<7, ECDSA, 0>>, <<SHA256, 4, 0>>,
   <<SHA256, ECDSA, 4, 0, 0, 0, 0>>, <<SHA256, ECDSA, 1>>,
   <<SHA256, ECDSA, 0>>, <<SHA1, ECDSA, 0>>, <<SHA256, RSA, 0>>, <<SHA1, RSA, 0>>,
   <<SHA256, ECDSA, 3, 1, 0, 0>>, <<SHA1, RSA, 3, 1, 0, 0>>}

\* SignatureRecords a caller may put into a proof object for `serialized`
ProofSignatures(serialized) ==
  {DigitallySigned(h, s, raw) :
     h \in {SHA1, SHA256}, s \in {RSA, ECDSA},
     raw \in {<<>>, <<1, 0, 0>>}
             \cup {EVP_SignFinal(Digest(serialized), signer.pkey, n) : n \in Nonces}}

\* the record already in a proof object handed to an in-place sign
StaleSignature == DigitallySigned(SHA1, RSA, <<1, 0, 0>>)

EVP_PKEY_RSA == "EVP_PKEY_RSA"
KeyTypes == {EVP_PKEY_EC, EVP_PKEY_RSA}

\* ------------------------------------------------- ConcSpec: threads, contexts
NumThreads == 2
Threads == 1..NumThreads

\* a thread outside Sign / Verify
NoFrame ==
  [pc |-> "done", op |-> "none", data |-> <<>>, signature |-> EmptyDigitallySigned,
   rc |-> 0, result |-> "NONE"]

\* an EVP_MD_CTX: its life cycle state, the bytes hashed so far, and the
\* threads that initialised it and have not yet cleaned it up
NoCtx == [state |-> "none", md |-> <<>>, users |-> {}]

\* fault: one EVP_MD_CTX with static storage, used by every call
CtxOf_Static(t) == 1

\* the EVP_MD_CTX a call uses: the local `ctx` of its RawSign / RawVerify frame
CtxOf(t) == t

\* canonical inputs and SignatureRecords handed to concurrent calls
ConcData ==
  {SerializeSTHForSigning(0, 0, [i \in 1..HashLength |-> 0]).out,
   SerializeSCTSignatureInput(0, X509_ENTRY, <<0>>).out}

ConcSignatures ==
  {DigitallySigned(SHA256, ECDSA,
                   EVP_SignFinal(Digest(SerializeSCTSignatureInput(0, X509_ENTRY, <<0>>).out),
                                 signer.pkey, 0)),
   DigitallySigned(SHA256, ECDSA, <<>>),
   DigitallySigned(SHA1, ECDSA, <<>>),
   DigitallySigned(SHA256, RSA, <<>>)}

\* no call in progress: the caller is between two calls
NoCall == [op |-> "none", in |-> <<>>,
           out |-> Returned("NONE", <<>>, <<>>, NoProof, <<>>)]

\* --------------------------------------------------------------------- Init
Init ==
  /\ signer = LogSigner([type |-> EVP_PKEY_EC, id |-> 1])
  /\ \E ty \in KeyTypes, k \in KeyIds :
       verifier = LogSigVerifier([type |-> ty, id |-> k])
  /\ process = IF signer.fatal \/ verifier.fatal THEN "aborted" ELSE "running"
  /\ call = NoCall
  /\ thr = [t \in Threads |-> NoFrame]
  /\ ctx = [t \in Threads |-> NoCtx]

\* the process is alive and the caller is not inside a call
Idle == process = "running" /\ call = NoCall

\* one public call: record it; a failed CHECK ends the process
Finish(op, in, out) ==
  /\ call' = [op |-> op, in |-> in, out |-> out]
  /\ process' = IF out.aborted THEN "aborted" ELSE "running"
  /\ UNCHANGED <<signer, verifier, thr, ctx>>

\* ------------------------------------------------------------- sign actions
Call_SignCertificateTimestamp ==
  /\ Idle
  /\ \E t \in Timestamps, ty \in EntryTypes, c \in Certificates,
        n \in Nonces, evp_ok \in BOOLEAN :
       Finish("sign_timestamp",
              [timestamp |-> t, type |-> ty, leaf_certificate |-> c],
              SignCertificateTimestamp(t, ty, c, n, evp_ok))

Call_SignCertificateTimestampSCT ==
  /\ Idle
  /\ \E e \in LogEntries, tf \in TimestampFields, old \in BOOLEAN,
        n \in Nonces, evp_ok \in BOOLEAN :
       LET sct == SignedCertificateTimestamp(tf[1], tf[2], old,
                    IF old THEN StaleSignature ELSE EmptyDigitallySigned) IN
       Finish("sign_timestamp_proof", [entry |-> e, proof |-> sct],
              SignCertificateTimestampSCT(e, sct, n, evp_ok))

Call_SignTreeHead ==
  /\ Idle
  /\ \E t \in Timestamps, sz \in TreeSizes, h \in RootHashes,
        n \in Nonces, evp_ok \in BOOLEAN :
       Finish("sign_tree_head",
              [timestamp |-> t, tree_size |-> sz, root_hash |-> h],
              SignTreeHead(t, sz, h, n, evp_ok))

Call_SignTreeHeadSTH ==
  /\ Idle
  /\ \E tf \in TimestampFields, sz \in TreeSizes, h \in RootHashes, old \in BOOLEAN,
        n \in Nonces, evp_ok \in BOOLEAN :
       LET sth == SignedTreeHead(tf[1], tf[2], sz, h, old,
                    IF old THEN StaleSignature ELSE EmptyDigitallySigned) IN
       Finish("sign_tree_head_proof", [proof |-> sth],
              SignTreeHeadSTH(sth, n, evp_ok))

\* ----------------------------------------------------------- verify actions
VerifySCTSignature_With(t, ty, c, s) ==
  Finish("verify_timestamp",
         [timestamp |-> t, type |-> ty, leaf_certificate |-> c, serialized_sig |-> s],
         VerifySCTSignature(t, ty, c, s))

\* the blob is forged, a restamped signature of the same fields, a tree-head
\* signature, or what sign_timestamp returned for fields st, sty, sc
Call_VerifySCTSignature ==
  /\ Idle
  /\ \E t \in Timestamps, ty \in EntryTypes, c \in Certificates :
       \/ \E s \in ForgedBlobs \cup Restamped(SCTSignatures(t, ty, c))
                   \cup STHSignatures(0, 0, [i \in 1..HashLength |-> 0]) :
            VerifySCTSignature_With(t, ty, c, s)
       \/ \E st \in Timestamps, sty \in EntryTypes, sc \in Certificates :
            \E s \in SCTSignatures(st, sty, sc) :
              VerifySCTSignature_With(t, ty, c, s)

Call_VerifySCTSignatureSCT ==
  /\ Idle
  /\ \E e \in LogEntries, tf \in TimestampFields :
       \E sig \in ProofSignatures(
                    SerializeSCTSignatureInput(tf[2], e.type, e.leaf_certificate).out) :
         LET sct == SignedCertificateTimestamp(tf[1], tf[2], TRUE, sig) IN
         Finish("verify_timestamp_proof", [entry |-> e, proof |-> sct],
                VerifySCTSignatureSCT(e, sct))

VerifySTHSignature_With(t, sz, h, s) ==
  Finish("verify_tree_head",
         [timestamp |-> t, tree_size |-> sz, root_hash |-> h, serialized_sig |-> s],
         VerifySTHSignature(t, sz, h, s))

Call_VerifySTHSignature ==
  /\ Idle
  /\ \E t \in Timestamps, sz \in TreeSizes, h \in RootHashes :
       \/ \E s \in ForgedBlobs \cup Restamped(STHSignatures(t, sz, h))
                   \cup SCTSignatures(0, X509_ENTRY, <<0>>) :
            VerifySTHSignature_With(t, sz, h, s)
       \/ \E st \in Timestamps, ssz \in TreeSizes, sh \in RootHashes :
            \E s \in STHSignatures(st, ssz, sh) :
              VerifySTHSignature_With(t, sz, h, s)

Call_VerifySTHSignatureSTH ==
  /\ Idle
  /\ \E tf \in TimestampFields, sz \in TreeSizes, h \in RootHashes :
       \E sig \in ProofSignatures(SerializeSTHForSigning(tf[2], sz, h).out) :
         LET sth == SignedTreeHead(tf[1], tf[2], sz, h, TRUE, sig) IN
         Finish("verify_tree_head_proof", [proof |-> sth],
                VerifySTHSignatureSTH(sth))

\* the caller has taken the result and is ready for its next call
Caller_Continue ==
  /\ process = "running"
  /\ call # NoCall
  /\ call' = NoCall
  /\ UNCHANGED <<signer, verifier, process, thr, ctx>>

Next ==
  \/ Call_SignCertificateTimestamp
  \/ Call_SignCertificateTimestampSCT
  \/ Call_SignTreeHead
  \/ Call_SignTreeHeadSTH
  \/ Call_VerifySCTSignature
  \/ Call_VerifySCTSignatureSCT
  \/ Call_VerifySTHSignature
  \/ Call_VerifySTHSignatureSTH
  \/ Caller_Continue

Spec == Init /\ [][Next]_vars

\* ------------------------------------------------------------------ ConcSpec
\* Threads run LogSigner::Sign and LogSigVerifier::Verify, the bodies every
\* public operation ends in, one statement at a time.
Step(t, frame) ==
  /\ thr' = [thr EXCEPT ![t] = frame]
  /\ UNCHANGED <<signer, verifier, process, call>>

\* a thread enters Verify(input, signature)
Enter_Verify(t) ==
  /\ process = "running" /\ thr[t].pc = "done"
  /\ \E d \in ConcData, sig \in ConcSignatures :
       Step(t, [NoFrame EXCEPT !.pc = "check_hash", !.op = "verify",
                               !.data = d, !.signature = sig])
  /\ UNCHANGED ctx

\* a thread enters Sign(data, result)
Enter_Sign(t) ==
  /\ process = "running" /\ thr[t].pc = "done"
  /\ \E d \in ConcData :
       Step(t, [NoFrame EXCEPT !.pc = "stamp", !.op = "sign", !.data = d])
  /\ UNCHANGED ctx

\* Verify: if (signature.hash_algorithm() != hash_algo_) return HASH_ALGORITHM_MISMATCH
Check_hash_algorithm(t) ==
  /\ process = "running" /\ thr[t].pc = "check_hash"
  /\ IF thr[t].signature.hash_algorithm # verifier.hash_algo
       THEN Step(t, [thr[t] EXCEPT !.pc = "done", !.result = "HASH_ALGORITHM_MISMATCH"])
       ELSE Step(t, [thr[t] EXCEPT !.pc = "check_sig"])
  /\ UNCHANGED ctx

\* Verify: if (signature.sig_algorithm() != sig_algo_) return SIGNATURE_ALGORITHM_MISMATCH
Check_sig_algorithm(t) ==
  /\ process = "running" /\ thr[t].pc = "check_sig"
  /\ IF thr[t].signature.sig_algorithm # verifier.sig_algo
       THEN Step(t, [thr[t] EXCEPT !.pc = "done",
                                   !.result = "SIGNATURE_ALGORITHM_MISMATCH"])
       ELSE Step(t, [thr[t] EXCEPT !.pc = "ctx_init"])
  /\ UNCHANGED ctx

\* Sign: result->set_hash_algorithm(hash_algo_); result->set_sig_algorithm(sig_algo_)
Stamp(t) ==
  /\ process = "running" /\ thr[t].pc = "stamp"
  /\ Step(t, [thr[t] EXCEPT !.pc = "ctx_init",
                            !.signature.hash_algorithm = signer.hash_algo,
                            !.signature.sig_algorithm = signer.sig_algo])
  /\ UNCHANGED ctx

\* RawSign / RawVerify: EVP_MD_CTX ctx; EVP_MD_CTX_init(&ctx)
Ctx_init(t) ==
  /\ process = "running" /\ thr[t].pc = "ctx_init"
  /\ ctx' = [ctx EXCEPT ![CtxOf(t)] =
               [state |-> "init", md |-> <<>>, users |-> @.users \cup {t}]]
  /\ Step(t, [thr[t] EXCEPT !.pc = "evp_init"])

\* CHECK_EQ(1, EVP_SignInit(&ctx, EVP_sha256())) / EVP_VerifyInit
Evp_init(t) ==
  /\ process = "running" /\ thr[t].pc = "evp_init"
  /\ ctx' = [ctx EXCEPT ![CtxOf(t)].state = "ready", ![CtxOf(t)].md = <<>>]
  /\ Step(t, [thr[t] EXCEPT !.pc = "evp_update"])

\* CHECK_EQ(1, EVP_SignUpdate(&ctx, data.data(), data.size())) / EVP_VerifyUpdate
Evp_update(t) ==
  /\ process = "running" /\ thr[t].pc = "evp_update"
  /\ ctx' = [ctx EXCEPT ![CtxOf(t)].md = @ \o thr[t].data]
  /\ Step(t, [thr[t] EXCEPT !.pc = "evp_final"])

\* RawVerify: ret = (EVP_VerifyFinal(&ctx, sig, len, pkey_) == 1)
Evp_verify_final(t) ==
  /\ process = "running" /\ thr[t].pc = "evp_final" /\ thr[t].op = "verify"
  /\ Step(t, [thr[t] EXCEPT !.pc = "cleanup",
                            !.rc = EVP_VerifyFinal(Digest(ctx[CtxOf(t)].md),
                                                   thr[t].signature.signature,
                                                   verifier.pkey)])
  /\ UNCHANGED ctx

\* RawSign: CHECK_EQ(1, EVP_SignFinal(&ctx, sig, &sig_size, pkey_))
Evp_sign_final(t) ==
  /\ process = "running" /\ thr[t].pc = "evp_final" /\ thr[t].op = "sign"
  /\ \/ /\ \E n \in Nonces :
             thr' = [thr EXCEPT ![t] =
                       [@ EXCEPT !.pc = "cleanup", !.rc = 1,
                                 !.signature.signature =
                                   EVP_SignFinal(Digest(ctx[CtxOf(t)].md),
                                                 signer.pkey, n)]]
        /\ UNCHANGED process
     \/ /\ process' = "aborted"
        /\ UNCHANGED thr
  /\ UNCHANGED <<signer, verifier, call, ctx>>

\* EVP_MD_CTX_cleanup(&ctx), then the return statements of Raw* and of
\* Verify / Sign, which touch only the frame
Ctx_cleanup(t) ==
  /\ process = "running" /\ thr[t].pc = "cleanup"
  /\ ctx' = [ctx EXCEPT ![CtxOf(t)] =
               [state |-> "clean", md |-> <<>>, users |-> @.users \ {t}]]
  /\ Step(t, [thr[t] EXCEPT !.pc = "done",
                            !.result = IF thr[t].op = "sign" \/ thr[t].rc = 1
                                         THEN "OK" ELSE "INVALID_SIGNATURE"])

ConcNext ==
  \E t \in Threads :
    \/ Enter_Verify(t)
    \/ Enter_Sign(t)
    \/ Check_hash_algorithm(t)
    \/ Check_sig_algorithm(t)
    \/ Stamp(t)
    \/ Ctx_init(t)
    \/ Evp_init(t)
    \/ Evp_update(t)
    \/ Evp_verify_final(t)
    \/ Evp_sign_final(t)
    \/ Ctx_cleanup(t)

\* a Signer and a Verifier over the two halves of one key pair
ConcInit == Init /\ verifier = LogSigVerifier(signer.pkey)

ConcSpec == ConcInit /\ [][ConcNext]_vars

\* ======================================================================
\* Properties
\* ======================================================================
SignOps == {"sign_timestamp", "sign_timestamp_proof",
            "sign_tree_head", "sign_tree_head_proof"}
VerifyOps == {"verify_timestamp", "verify_timestamp_proof",
              "verify_tree_head", "verify_tree_head_proof"}
ScalarVerifyOps == {"verify_timestamp", "verify_tree_head"}
ProofOps == {"sign_timestamp_proof", "sign_tree_head_proof",
             "verify_timestamp_proof", "verify_tree_head_proof"}

\* the Signer and the Verifier hold the two halves of one key pair
KeysMatch == verifier.pkey.id = signer.pkey.id

\* what the encoder answers for the fields of the recorded call
CallCanon ==
  CASE call.op \in {"sign_timestamp", "verify_timestamp"} ->
         SerializeSCTSignatureInput(call.in.timestamp, call.in.type,
                                    call.in.leaf_certificate)
    [] call.op \in {"sign_timestamp_proof", "verify_timestamp_proof"} ->
         SerializeSCTSignatureInput(call.in.proof.timestamp, call.in.entry.type,
                                    call.in.entry.leaf_certificate)
    [] call.op \in {"sign_tree_head", "verify_tree_head"} ->
         SerializeSTHForSigning(call.in.timestamp, call.in.tree_size,
                                call.in.root_hash)
    [] call.op \in {"sign_tree_head_proof", "verify_tree_head_proof"} ->
         SerializeSTHForSigning(call.in.proof.timestamp, call.in.proof.tree_size,
                                call.in.proof.root_hash)

\* the SignatureRecord a recorded verify call is given, and whether it decoded
CallDecode ==
  IF call.op \in ScalarVerifyOps
    THEN DeserializeDigitallySigned(call.in.serialized_sig)
    ELSE [res |-> "OK", sig |-> call.in.proof.signature]

\* ---------------------------------------------------------------------- C1
\* C1: with matching keys, verify_timestamp returns OK for every blob that
\* sign_timestamp can return for the same (timestamp, entry_type, payload),
\* and verify_tree_head returns OK for every blob that sign_tree_head can
\* return for the same (timestamp, tree_size, root_hash), whichever nonce
\* the signing primitive drew.
C1_RoundTrip ==
  /\ (/\ call.op = "verify_timestamp"
      /\ KeysMatch
      /\ call.in.serialized_sig \in
           SCTSignatures(call.in.timestamp, call.in.type, call.in.leaf_certificate))
       => (call.out.result = "OK" /\ ~call.out.aborted)
  /\ (/\ call.op = "verify_tree_head"
      /\ KeysMatch
      /\ call.in.serialized_sig \in
           STHSignatures(call.in.timestamp, call.in.tree_size, call.in.root_hash))
       => (call.out.result = "OK" /\ ~call.out.aborted)

C1_Witness ==
  /\ call.op = "verify_tree_head"
  /\ KeysMatch
  /\ call.in.serialized_sig \in
       STHSignatures(call.in.timestamp, call.in.tree_size, call.in.root_hash)
  /\ call.in.serialized_sig[5] = MaxNonce
  /\ call.out.result = "OK"

\* ---------------------------------------------------------------------- C2
\* the number of places where two tuples of fields differ
Differences(a, b) == Cardinality({i \in DOMAIN a : a[i] # b[i]})

\* C2: a blob returned by sign_timestamp (sign_tree_head) for fields that
\* differ from the verified ones in exactly one of timestamp / payload
\* (timestamp / tree_size / root_hash), the changed field keeping its length,
\* makes the matching verify return INVALID_SIGNATURE.  Stated by
\* contraposition: a verify call with any other result was not given such a
\* blob (fields of the signed length that the encoder accepted are accepted
\* again, so only calls whose input canonicalizes can have been given one).
C2_TamperSensitivity ==
  /\ (/\ call.op = "verify_timestamp"
      /\ call.out.result # "INVALID_SIGNATURE"
      /\ CallCanon.res = "OK") =>
       \A st \in Timestamps, sc \in Certificates :
         ~(/\ Len(sc) = Len(call.in.leaf_certificate)
           /\ Differences(<<st, sc>>,
                          <<call.in.timestamp, call.in.leaf_certificate>>) = 1
           /\ call.in.serialized_sig \in SCTSignatures(st, call.in.type, sc))
  /\ (/\ call.op = "verify_tree_head"
      /\ call.out.result # "INVALID_SIGNATURE"
      /\ CallCanon.res = "OK") =>
       \A st \in Timestamps, ssz \in TreeSizes, sh \in RootHashes :
         ~(/\ Len(sh) = Len(call.in.root_hash)
           /\ Differences(<<st, ssz, sh>>,
                          <<call.in.timestamp, call.in.tree_size, call.in.root_hash>>) = 1
           /\ call.in.serialized_sig \in STHSignatures(st, ssz, sh))

\* a signature over timestamp + 1, verified with matching keys
C2_Witness ==
  /\ call.op = "verify_timestamp"
  /\ KeysMatch
  /\ call.in.timestamp = 0
  /\ call.in.serialized_sig \in
       SCTSignatures(1, call.in.type, call.in.leaf_certificate)
  /\ call.out.result = "INVALID_SIGNATURE"

\* ---------------------------------------------------------------------- C3
\* C3: in every verify operation whose record decoded and whose input
\* canonicalized, a record with only the hash algorithm differing from the
\* Verifier's gives HASH_ALGORITHM_MISMATCH and a record with only the
\* signature algorithm differing gives SIGNATURE_ALGORITHM_MISMATCH,
\* whatever the raw signature bytes.
C3_AlgorithmStrictness ==
  (call.op \in VerifyOps /\ CallDecode.res = "OK" /\ CallCanon.res = "OK") =>
    /\ (/\ CallDecode.sig.hash_algorithm # verifier.hash_algo
        /\ CallDecode.sig.sig_algorithm = verifier.sig_algo)
         => call.out.result = "HASH_ALGORITHM_MISMATCH"
    /\ (/\ CallDecode.sig.hash_algorithm = verifier.hash_algo
        /\ CallDecode.sig.sig_algorithm # verifier.sig_algo)
         => call.out.result = "SIGNATURE_ALGORITHM_MISMATCH"

\* a record with a signature that would validate, but stamped RSA
C3_Witness ==
  /\ call.op = "verify_timestamp"
  /\ KeysMatch
  /\ CallCanon.res = "OK"
  /\ CallDecode.res = "OK"
  /\ CallDecode.sig.hash_algorithm = verifier.hash_algo
  /\ CallDecode.sig.sig_algorithm = RSA
  /\ EVP_VerifyFinal(Digest(CallCanon.out), CallDecode.sig.signature, verifier.pkey) = 1
  /\ call.out.result = "SIGNATURE_ALGORITHM_MISMATCH"

\* ---------------------------------------------------------------------- C4
\* the steps of a verify operation, in the order the claim gives them
VerifyOrder(op) ==
  IF op \in ScalarVerifyOps
    THEN <<"decode", "canonicalize", "check_hash", "check_sig", "raw_verify">>
    ELSE <<"canonicalize", "check_hash", "check_sig", "raw_verify">>

IsPrefix(a, b) == Len(a) <= Len(b) /\ a = SubSeq(b, 1, Len(a))

\* the step at which the recorded verify call must stop, and the code it
\* must return if that step is not the last one
FirstFailure ==
  IF CallDecode.res # "OK"
    THEN [step |-> "decode", code |-> GetDeserializeSignatureError(CallDecode.res)]
  ELSE IF CallCanon.res # "OK"
    THEN [step |-> "canonicalize", code |-> CallCanon.res]
  ELSE IF CallDecode.sig.hash_algorithm # verifier.hash_algo
    THEN [step |-> "check_hash", code |-> "HASH_ALGORITHM_MISMATCH"]
  ELSE IF CallDecode.sig.sig_algorithm # verifier.sig_algo
    THEN [step |-> "check_sig", code |-> "SIGNATURE_ALGORITHM_MISMATCH"]
  ELSE [step |-> "raw_verify", code |-> "NONE"]

\* C4: a verify operation runs a prefix of decode (scalar variants only),
\* canonicalize, check hash_algorithm, check signature_algorithm, raw
\* verification; it stops at the first step that fails and returns that
\* step's code; the raw primitive runs at most once, and only when decoding,
\* canonicalization and both algorithm checks succeeded.
C4_FailFastOrder ==
  call.op \in VerifyOps =>
    /\ IsPrefix(call.out.steps, VerifyOrder(call.op))
    /\ call.out.steps # <<>>
    /\ call.out.steps[Len(call.out.steps)] = FirstFailure.step
    /\ FirstFailure.step # "raw_verify" =>
         (call.out.result = FirstFailure.code /\ call.out.evp = <<>>)
    /\ Len(call.out.evp) <= 1
    /\ Len(call.out.evp) = 1 =>
         /\ CallDecode.res = "OK"
         /\ CallCanon.res = "OK"
         /\ CallDecode.sig.hash_algorithm = verifier.hash_algo
         /\ CallDecode.sig.sig_algorithm = verifier.sig_algo

\* a blob with a mismatched signature algorithm over an input that
\* canonicalizes: the call ended at the signature-algorithm check
C4_Witness ==
  /\ call.op = "verify_tree_head"
  /\ call.out.steps = <<"decode", "canonicalize", "check_hash", "check_sig">>
  /\ call.out.result = "SIGNATURE_ALGORITHM_MISMATCH"
  /\ call.out.evp = <<>>

\* ---------------------------------------------------------------------- C5
\* the encoder is reached: every sign operation but sign_timestamp_proof on a
\* proof without timestamp
EncoderReached ==
  ~(call.op = "sign_timestamp_proof" /\ ~call.in.proof.has_timestamp)

\* C5: when the encoder rejects the input of a sign operation, the operation
\* returns the SignError named like the encoder's error and the raw signing
\* primitive is not invoked; sign_timestamp with a known entry type and an
\* empty payload returns EMPTY_CERTIFICATE.
C5_SignRejectsBeforeCrypto ==
  /\ (call.op \in SignOps /\ EncoderReached /\ CallCanon.res # "OK") =>
       /\ CallCanon.res \in {"INVALID_ENTRY_TYPE", "EMPTY_CERTIFICATE",
                            "CERTIFICATE_TOO_LONG", "INVALID_HASH_LENGTH"}
       /\ call.out.result = CallCanon.res
       /\ ~call.out.aborted
       /\ \A i \in DOMAIN call.out.steps : call.out.steps[i] # "raw_sign"
       /\ call.out.blob = <<>>
  /\ (/\ call.op = "sign_timestamp"
      /\ call.in.type \in {X509_ENTRY, PRECERT_ENTRY}
      /\ call.in.leaf_certificate = <<>>)
       => (call.out.result = "EMPTY_CERTIFICATE" /\ call.out.steps = <<"canonicalize">>)

C5_Witness ==
  /\ call.op = "sign_timestamp"
  /\ call.in.type = X509_ENTRY
  /\ call.in.leaf_certificate = <<>>
  /\ call.out.result = "EMPTY_CERTIFICATE"
  /\ call.out.steps = <<"canonicalize">>

\* ---------------------------------------------------------------------- C6
\* C6: sign_timestamp_proof on a proof whose timestamp was never set aborts
\* the process before the encoder or the signing primitive runs; the proof
\* is left as it was and no SignError is returned, whatever the log entry.
C6_TimestampPrecondition ==
  (call.op = "sign_timestamp_proof" /\ ~call.in.proof.has_timestamp) =>
    /\ call.out.aborted
    /\ process = "aborted"
    /\ call.out.steps = <<>>
    /\ call.out.result = "NONE"
    /\ call.out.proof = call.in.proof

\* the entry is one the encoder would accept
C6_Witness ==
  /\ call.op = "sign_timestamp_proof"
  /\ ~call.in.proof.has_timestamp
  /\ SCTInputResult(call.in.entry.type, call.in.entry.leaf_certificate) = "OK"
  /\ process = "aborted"

\* ---------------------------------------------------------------------- C7
\* C7: sign_tree_head_proof on a proof whose timestamp was never set aborts;
\* it writes no signature into the proof and does not return OK.
C7_TreeHeadPrecondition ==
  (call.op = "sign_tree_head_proof" /\ ~call.in.proof.has_timestamp) =>
    /\ call.out.aborted
    /\ call.out.result # "OK"
    /\ call.out.proof = call.in.proof

\* ---------------------------------------------------------------------- C9
\* the fields of a proof object other than its SignatureRecord
Frame(proof) == [proof EXCEPT !.has_signature = FALSE,
                              !.signature = EmptyDigitallySigned]

\* C9: the in-place sign operations leave every field of the proof but its
\* SignatureRecord as it was, on every path; the verify operations on a
\* proof leave the whole proof as it was.
C9_Frame ==
  /\ call.op \in {"sign_timestamp_proof", "sign_tree_head_proof"} =>
       Frame(call.out.proof) = Frame(call.in.proof)
  /\ call.op \in {"verify_timestamp_proof", "verify_tree_head_proof"} =>
       call.out.proof = call.in.proof

\* a tree-head proof that was signed in place
C9_Witness ==
  /\ call.op = "sign_tree_head_proof"
  /\ call.out.result = "OK"
  /\ call.out.proof # call.in.proof
  /\ call.out.proof.signature.signature # <<>>
  /\ call.out.proof.root_hash = call.in.proof.root_hash

\* --------------------------------------------------------------------- C10
\* C10 as stated: after the earlier steps succeeded, INVALID_SIGNATURE when
\* the primitive answers 0 and OK for every other answer (1 or negative).
C10_AnyOtherOutcomeIsOK ==
  (call.op \in VerifyOps /\ Len(call.out.evp) = 1) =>
    /\ call.out.evp[1] = 0 => call.out.result = "INVALID_SIGNATURE"
    /\ call.out.evp[1] # 0 => call.out.result = "OK"

\* C10 amended: after the earlier steps succeeded, OK when the primitive
\* answers 1 and INVALID_SIGNATURE for every other answer (0 or negative).
C10_OnlyValidIsOK ==
  (call.op \in VerifyOps /\ FirstFailure.step = "raw_verify") =>
    /\ Len(call.out.evp) = 1
    /\ call.out.evp[1] \in {-1, 0, 1}
    /\ call.out.evp[1] = 1 => call.out.result = "OK"
    /\ call.out.evp[1] # 1 => call.out.result = "INVALID_SIGNATURE"

\* the primitive reported an error on signature bytes it could not parse
C10_Witness ==
  /\ call.op \in VerifyOps
  /\ call.out.evp = <<-1>>
  /\ call.out.result = "INVALID_SIGNATURE"

\* ---------------------------------------------------------------------- C8
\* threads between EVP_MD_CTX_init and EVP_MD_CTX_cleanup
InRaw(t) == thr[t].pc \in {"evp_init", "evp_update", "evp_final", "cleanup"}

ContextsPrivate ==
  /\ \A c \in DOMAIN ctx : Cardinality(ctx[c].users) <= 1
  /\ \A t \in Threads :
       /\ InRaw(t) => \E c \in DOMAIN ctx : ctx[c].users = {t}
       /\ ~InRaw(t) => \A c \in DOMAIN ctx : t \notin ctx[c].users

VerifyAsAlone ==
  \A t \in Threads :
    (thr[t].pc = "done" /\ thr[t].op = "verify") =>
      thr[t].result = Verify(thr[t].data, thr[t].signature).result

\* C8: every call initialises, uses and cleans up a context of its own, no
\* context is held by two calls at once, the key handles and AlgorithmPairs
\* never change, and a finished verify call has the result Verify gives for
\* its arguments when run alone, under every interleaving of the threads.
C8_ThreadSafety ==
  /\ [](ContextsPrivate /\ VerifyAsAlone)
  /\ [][signer' = signer /\ verifier' = verifier]_vars

\* two calls over different data inside the hashing section together
C8_Witness ==
  /\ thr[1].pc = "evp_final" /\ thr[1].op = "verify"
  /\ thr[2].pc = "evp_final" /\ thr[2].op = "sign"
  /\ thr[1].data # thr[2].data
  /\ ctx[1].md = thr[1].data /\ ctx[2].md = thr[2].data

====
